---- MODULE Spec2Model ----
(***************************************************************************)
(* A model of the indeed-scraper run, src/index.js scrapeIndeed(): the     *)
(* CAPTCHA gate (console handler, grace wait, capPromise), the paginated   *)
(* crawl with the per-card filter (seen ids, title check, detail page,     *)
(* licence / ignore-list exclusion, DeepSeek classification) and the       *)
(* final merge & save into indeed_filtered_jobs.xlsx.                      *)
(*                                                                         *)
(* JavaScript strings are sequences of one-character strings, so that      *)
(* toUpperCase, trim, includes behave as they do in the code.              *)
(*                                                                         *)
(* A promise rejection nobody handles (the async console handler and the   *)
(* top-level scrapeIndeed() call have no catch) ends the Node process with *)
(* exit code 1: proc = "exit1".                                            *)
(***************************************************************************)
EXTENDS Integers, Sequences, FiniteSets, TLC

\* ------------------------------------------------------------------ bounds
MaxPages == 2
MaxCards == 2
MaxPrior == 1
MaxSignals == 2
MaxRuns == 2

\* ------------------------------------------------------- string primitives
LowerChars ==
  <<"a","b","c","d","e","f","g","h","i","j","k","l","m",
    "n","o","p","q","r","s","t","u","v","w","x","y","z">>
UpperChars ==
  <<"A","B","C","D","E","F","G","H","I","J","K","L","M",
    "N","O","P","Q","R","S","T","U","V","W","X","Y","Z">>

\* String.prototype.toUpperCase on one character
toUpperChar(c) ==
  IF \E i \in 1..Len(LowerChars) : LowerChars[i] = c
    THEN UpperChars[CHOOSE i \in 1..Len(LowerChars) : LowerChars[i] = c]
    ELSE c

\* String.prototype.toUpperCase
toUpperCase(s) == [i \in 1..Len(s) |-> toUpperChar(s[i])]

\* String.prototype.includes
includes(s, sub) ==
  \E i \in 0..(Len(s) - Len(sub)) : SubSeq(s, i + 1, i + Len(sub)) = sub

\* String.prototype.trim (blanks only)
RECURSIVE trimStart(_)
trimStart(s) == IF s # <<>> /\ Head(s) = " " THEN trimStart(Tail(s)) ELSE s
RECURSIVE trimEnd(_)
trimEnd(s) ==
  IF s # <<>> /\ s[Len(s)] = " " THEN trimEnd(SubSeq(s, 1, Len(s) - 1)) ELSE s
trim(s) == trimEnd(trimStart(s))

\* Array.prototype.includes
arrayIncludes(arr, x) == \E i \in 1..Len(arr) : arr[i] = x

\* arr.map(c => c.toUpperCase())
mapToUpperCase(arr) == [i \in 1..Len(arr) |-> toUpperCase(arr[i])]

\* ------------------------------------------------------- program constants
ignore_companies ==
 <<
    <<"F","i","d","e","l","i","t","y"," ","I","n","v","e","s","t","m","e","n","t","s">>,
    <<"F","I","S"," ","G","l","o","b","a","l">>,
    <<"E","Y">>,
    <<"D","i","s","n","e","y">>,
    <<"L","o","c","k","h","e","e","d"," ","M","a","r","t","i","n">>,
    <<"L","o","c","k","h","e","e","d"," ","M","a","r","t","i","n"," ","C","o","r","p","o","r","a","t","i","o","n">>,
    <<"J","a","c","o","b","s"," ","E","n","g","i","n","e","e","r","i","n","g"," ","G","r","o","u","p"," ","I","n","c",".">>,
    <<"N","T","T"," ","D","A","T","A">>,
    <<"P","a","y","P","a","l">>,
    <<"D","i","a","l","y","s","i","s"," ","C","l","i","n","i","c",","," ","I","n","c",".">>,
    <<"D","i","s","c","o","v","e","r"," ","F","i","n","a","n","c","i","a","l"," ","S","e","r","v","i","c","e","s">>,
    <<"C","o","a","l","i","t","i","o","n"," ","T","e","c","h","n","o","l","o","g","i","e","s">>,
    <<"A","m","e","r","i","c","a","n"," ","P","a","r","t","n","e","r"," ","S","o","l","u","t","i","o","n","s">>,
    <<"G","e","n","e","r","a","l"," ","D","y","n","a","m","i","c","s"," ","I","n","f","o","r","m","a","t","i","o","n"," ","T","e","c","h","n","o","l","o","g","y">>,
    <<"B","o","o","z"," ","A","l","l","e","n">>,
    <<"A","m","e","x">>,
    <<"B","A","E"," ","S","y","s","t","e","m","s">>,
    <<"C","a","p","g","e","m","i","n","i">>,
    <<"C","E","D","E","N","T">>,
    <<"I","n","f","o","s","y","s">>,
    <<"P","e","r","a","t","o","n">>,
    <<"S","A","I","C">>,
    <<"C","V","S"," ","H","e","a","l","t","h">>,
    <<"L","o","w","e","'","s">>,
    <<"W","i","p","r","o"," ","L","i","m","i","t","e","d">>,
    <<"P","i","p","e","r"," ","C","o","m","p","a","n","i","e","s">>,
    <<"M","o","c","h","i"," ","H","e","a","l","t","h">>,
    <<"J","P","M","o","r","g","a","n","C","h","a","s","e">>,
    <<"E","C","S"," ","F","e","d","e","r","a","l",","," ","L","L","C">>,
    <<"D","i","s","n","e","y"," ","E","n","t","e","r","t","a","i","n","m","e","n","t">>,
    <<"C","o","g","n","i","z","a","n","t">>,
    <<"C","a","p","i","t","a","l"," ","O","n","e">>,
    <<"A","S","R","C"," ","F","e","d","e","r","a","l">>,
    <<"A","p","p","l","e">>,
    <<"R","o","b","e","r","t"," ","H","a","l","f">>,
    <<"E","b","a","y">>,
    <<"A","m","a","z","o","n">>,
    <<"G","o","o","g","l","e","/","A","l","p","h","a">>,
    <<"F","a","c","e","b","o","o","k","/","M","e","t","a">>,
    <<"M","i","c","r","o","s","o","f","t">>
 >>

\* keywords of the title check and markers of the classifier reply
KW_REACT == <<"R","E","A","C","T">>
KW_JAVASCRIPT == <<"J","A","V","A","S","C","R","I","P","T">>
KW_PHP == <<"P","H","P">>
KW_WORDPRESS == <<"W","O","R","D","P","R","E","S","S">>
MARK_JS == <<"P","R","O","F","I","L","E",":"," ","J","S">>
MARK_WORDPRESS == <<"P","R","O","F","I","L","E",":"," ","W","O","R","D","P","R","E","S","S">>
MARK_PHP == <<"P","R","O","F","I","L","E",":"," ","P","H","P">>

\* ------------------------------------------------------------ input values
TitleReact == <<"S","r"," ","R","e","a","c","t"," ","D","e","v">>
TitlePhpReact == <<"P","H","P","/","R","e","a","c","t">>
TitleJavascript == <<"j","a","v","a","s","c","r","i","p","t">>
TitlePhpSecret == <<"P","H","P"," ","(","S","e","c","r","e","t",")">>
TitleWordpress == <<"W","o","r","d","P","r","e","s","s">>
TitleWordpressPhp == <<"W","o","r","d","P","r","e","s","s"," ","P","H","P">>
TitleGo == <<"G","o"," ","D","e","v">>
CoAmazon == <<"A","m","a","z","o","n">>
CoAmazonLower == <<"a","m","a","z","o","n">>
CoAmazonUpper == <<"A","M","A","Z","O","N">>
CoAcme == <<"A","c","m","e">>
ReplyJs == <<" ","P","r","o","f","i","l","e",":"," ","J","S"," ">>
ReplyPhp == <<"p","r","o","f","i","l","e",":"," ","p","h","p">>
ReplyWordpress == <<"P","R","O","F","I","L","E",":"," ","W","O","R","D","P","R","E","S","S">>
ReplyOther == <<"P","R","O","F","I","L","E",":"," ","O","T","H","E","R">>
ReplyUnsure == <<"u","n","s","u","r","e">>

\* one .job_seen_beacon card as the listing serves it; jobId "" is a card
\* whose link has no jk parameter; lic is what the job's detail page shows
\* (a licence / clearance tile), not a field of the card
Card(id, title, company, lic) ==
  [jobId |-> id, title |-> title, company |-> company, lic |-> lic,
   href |-> TRUE]

\* a card whose h2.jobTitle > a has no href attribute: getAttribute('href')
\* is null there
CardNoHref(title, company) ==
  [jobId |-> "", title |-> title, company |-> company, lic |-> FALSE,
   href |-> FALSE]

\* the map callback of page.evaluate: href.startsWith(...) on a null href is a
\* TypeError, which rejects the whole evaluate call
extractThrows(cards) == \E i \in 1..Len(cards) : ~cards[i].href

\* replies of the chat completion (resp.choices[0].message.content)
Replies == {ReplyJs, ReplyPhp, ReplyWordpress, ReplyOther, ReplyUnsure}

\* the listings a source may serve in one session
PoolIds ==
  { Card("a", TitleReact, CoAcme, FALSE), Card("c", TitleReact, CoAcme, FALSE),
    Card("", TitleReact, CoAcme, FALSE), Card("b", TitleGo, CoAcme, FALSE),
    CardNoHref(TitleReact, CoAcme) }
PoolDeep ==
  { Card("a", TitleReact, CoAcme, FALSE), Card("c", TitleReact, CoAcme, FALSE),
    Card("b", TitleGo, CoAcme, FALSE) }
PoolTitles ==
  { Card("a", t, CoAcme, FALSE) :
      t \in {TitlePhpReact, TitleJavascript, TitleWordpress, TitleWordpressPhp} }
    \cup { Card("b", TitlePhpSecret, CoAcme, TRUE) }
PoolCompanies ==
  { Card("a", TitleGo, c, FALSE) :
      c \in {CoAmazon, CoAmazonLower, CoAmazonUpper, CoAcme} }
    \cup { Card("b", TitlePhpReact, CoAmazonLower, FALSE) }
PoolRerun ==
  { Card("a", TitleReact, CoAcme, FALSE),
    Card("b", TitleGo, CoAcme, FALSE), Card("b", TitleGo, CoAcme, TRUE),
    CardNoHref(TitleReact, CoAcme) }
PoolGate ==
  { Card("a", TitleReact, CoAcme, FALSE), Card("b", TitleGo, CoAcme, FALSE) }

\* the sources the model is run against: the cards served, the classifier's
\* replies, the number of results pages, whether a page shows up to MaxCards
\* cards or exactly two, and the number of challenge signals
Sources ==
  { [pool |-> PoolDeep, replies |-> {ReplyJs}, pages |-> MaxPages,
     wide |-> FALSE, signals |-> 0],
    [pool |-> PoolIds, replies |-> {ReplyJs}, pages |-> 1,
     wide |-> TRUE, signals |-> 0],
    [pool |-> PoolTitles, replies |-> {ReplyJs}, pages |-> 1,
     wide |-> TRUE, signals |-> 0],
    [pool |-> PoolCompanies, replies |-> Replies, pages |-> 1,
     wide |-> TRUE, signals |-> 0],
    [pool |-> PoolGate, replies |-> {ReplyOther}, pages |-> 1,
     wide |-> FALSE, signals |-> MaxSignals] }

\* a row of the sheet written before this run
PriorRecord(id) ==
  [jobId |-> id, title |-> TitleGo, company |-> CoAcme, profile |-> "PHP"]

RECURSIVE SeqsUpTo(_, _)
SeqsUpTo(S, n) ==
  IF n = 0 THEN {<<>>}
  ELSE LET shorter == SeqsUpTo(S, n - 1)
       IN shorter \cup { Append(s, x) : s \in shorter, x \in S }

DistinctIds(rows) ==
  \A i, j \in 1..Len(rows) : i # j => rows[i].jobId # rows[j].jobId

PriorStores(ids) ==
  { s \in SeqsUpTo({ PriorRecord(id) : id \in ids }, MaxPrior) : DistinctIds(s) }

\* the columns of the sheet 'FilteredJobs': the keys of a job object
Header == <<"jobId", "title", "company", "profile">>

\* XLSX.utils.json_to_sheet: one row of cells per object, in column order
json_to_sheet(objs) ==
  [i \in 1..Len(objs) |-> [k \in 1..Len(Header) |-> objs[i][Header[k]]]]

\* XLSX.utils.sheet_to_json(ws, { defval: '' }): one object per row of cells
sheet_to_json(cells) ==
  [i \in 1..Len(cells) |->
     [key \in { Header[k] : k \in 1..Len(Header) } |->
        LET k == CHOOSE n \in 1..Len(Header) : Header[n] = key
        IN IF k <= Len(cells[i]) THEN cells[i][k] ELSE ""]]

\* indeed_filtered_jobs.xlsx: absent, or a workbook with the sheet's cells
NoFile == [exists |-> FALSE, cells |-> <<>>]
Workbook(cells) == [exists |-> TRUE, cells |-> cells]

\* if (existsSync(EXCEL)) existing = sheet_to_json(...), else []
readExisting(file) == IF file.exists THEN sheet_to_json(file.cells) ELSE <<>>

\* a sheet whose only row has no cell in the profile column
RaggedStore == Workbook(<< <<"a", TitleGo, CoAcme>> >>)

\* the DOM of a results page: its cards and its pagination control
Pages(cardPool, isWide) ==
  { [cards |-> cs, nxt |-> n] :
      cs \in IF isWide THEN SeqsUpTo(cardPool, MaxCards) \ {<<>>}
             ELSE { <<c, d>> : c, d \in cardPool },
      n \in {"enabled", "disabled", "absent"} }

VARIABLES
  store,        \* the file indeed_filtered_jobs.xlsx
  proc,         \* the Node process: "running", "exit0", "exit1"
  pc,           \* where scrapeIndeed() is
  browserOpen,  \* launch() done and browser.close() not yet
  sawCap,       \* let sawCap
  capResolved,  \* capPromise is resolved
  handlers,     \* the console-handler invocations, each at an await
  existing,     \* let existing
  existingIds,  \* let existingIds
  newJobs,      \* const newJobs
  pageIdx,      \* let pageIdx
  dom,          \* const cards, and the pagination control of the page shown
  loc,          \* what page.url() is: "listing" or "auth"
  ci,           \* position of the for-of loop in cards
  desc,         \* const desc of the detail page being classified
  pool,         \* source: the cards it serves
  replies,      \* source: the replies the classifier gives
  sitePages,    \* source: number of results pages
  wide,         \* source: a page shows several cards
  challenges,   \* source: challenge signals it may still emit
  cron,         \* the script is invoked again on the same listing
  run,          \* number of the invocation
  served,       \* history: the results pages extracted in this run
  replay,       \* history: the results pages extracted in the previous run
  prior,        \* history: the store when the run began
  accepted,     \* history: the cards pushed to newJobs, with page and position
  skipLog,      \* history: the cards skipped because their id was seen
  detailLog,    \* history: the cards whose detail page was opened
  classifyLog,  \* history: the cards sent to the classifier
  extracted,    \* history: number of results pages extracted
  writes,       \* history: number of XLSX.writeFile calls
  solverCalls,  \* history: number of solver.cloudflareTurnstile calls
  injections,   \* history: number of cfCallback(token) evaluations
  fault         \* history: the rejection that ended the process, or "none"

srcVars == <<pool, replies, sitePages, wide, cron>>
gateVars == <<sawCap, capResolved, handlers>>
crawlVars == <<existing, existingIds, newJobs, pageIdx, dom, loc, ci, desc>>
runVars == <<run, replay, prior>>
logVars == <<served, accepted, skipLog, detailLog, classifyLog, extracted,
             writes, solverCalls, injections>>
vars == <<store, proc, pc, browserOpen, challenges, fault, srcVars, gateVars,
          crawlVars, runVars, logVars>>

NoDom == [cards |-> <<>>, nxt |-> "absent"]

\* scrapeIndeed() has launched the browser and registered the console handler
StartRun ==
  /\ proc = "running"
  /\ pc = "goto"
  /\ browserOpen = TRUE
  /\ sawCap = FALSE
  /\ capResolved = FALSE
  /\ handlers = <<>>
  /\ existing = <<>>
  /\ existingIds = {}
  /\ newJobs = <<>>
  /\ pageIdx = 1
  /\ dom = NoDom
  /\ loc = "listing"
  /\ ci = 1
  /\ desc = ""
  /\ served = <<>>
  /\ accepted = <<>>
  /\ skipLog = {}
  /\ detailLog = {}
  /\ classifyLog = {}
  /\ extracted = 0
  /\ writes = 0
  /\ solverCalls = 0
  /\ injections = 0
  /\ fault = "none"

InitSource(src) ==
  /\ pool = src.pool
  /\ replies = src.replies
  /\ sitePages = src.pages
  /\ wide = src.wide
  /\ challenges = src.signals
  /\ store \in {NoFile, RaggedStore} \cup
       { Workbook(json_to_sheet(s)) :
           s \in PriorStores({ c.jobId : c \in src.pool } \ {""}) \ {<<>>} }
  /\ prior = readExisting(store)
  /\ run = 1
  /\ replay = <<>>
  /\ StartRun

Init ==
  /\ cron = FALSE
  /\ \E src \in Sources : InitSource(src)

Running == proc = "running"

\* a rejection nobody handles: the process ends with exit code 1
Throw(what) ==
  /\ proc' = "exit1"
  /\ fault' = what
  /\ UNCHANGED <<store, pc, browserOpen, challenges, srcVars, gateVars,
                 crawlVars, runVars, logVars>>

\* ------------------------------------------------- Phase 1: CAPTCHA handler
\* page.on('console'): a message starting with 'intercepted-params:' arrives;
\* the handler sets sawCap and awaits solver.cloudflareTurnstile(p)
ConsoleIntercepted ==
  /\ Running
  /\ browserOpen
  /\ pc # "goto"
  /\ challenges > 0
  /\ challenges' = challenges - 1
  /\ sawCap' = TRUE
  /\ handlers' = Append(handlers, "solving")
  /\ solverCalls' = solverCalls + 1
  /\ UNCHANGED <<store, proc, pc, browserOpen, fault, srcVars, capResolved,
                 crawlVars, runVars, served, accepted, skipLog, detailLog, classifyLog,
                 extracted, writes, injections>>

\* the solver answers: the handler goes on to await page.evaluate(cfCallback)
SolverResolves(h) ==
  /\ Running
  /\ handlers[h] = "solving"
  /\ handlers' = [handlers EXCEPT ![h] = "injecting"]
  /\ UNCHANGED <<store, proc, pc, browserOpen, challenges, fault, srcVars,
                 sawCap, capResolved, crawlVars, runVars, logVars>>

\* a rejection that is only logged: the process goes on
handlerRejection_logged(h, what) ==
  /\ handlers' = [handlers EXCEPT ![h] = "rejected"]
  /\ proc' = proc
  /\ fault' = what

\* what follows a rejection inside the console handler, which has no catch
handlerRejection(h, what) ==
  /\ handlers' = [handlers EXCEPT ![h] = "rejected"]
  /\ proc' = "exit1"
  /\ fault' = what

\* the solver call is rejected
SolverRejects(h) ==
  /\ Running
  /\ handlers[h] = "solving"
  /\ handlerRejection(h, "solver")
  /\ UNCHANGED <<store, pc, browserOpen, challenges, srcVars, sawCap,
                 capResolved, crawlVars, runVars, logVars>>

\* cfCallback(token) ran in the page; the handler calls capResolve()
InjectResolves(h) ==
  /\ Running
  /\ browserOpen
  /\ handlers[h] = "injecting"
  /\ handlers' = [handlers EXCEPT ![h] = "done"]
  /\ injections' = injections + 1
  /\ capResolved' = TRUE
  /\ UNCHANGED <<store, proc, pc, browserOpen, challenges, fault, srcVars,
                 sawCap, crawlVars, runVars, served, accepted, skipLog, detailLog,
                 classifyLog, extracted, writes, solverCalls>>

\* page.evaluate is rejected (page closed or navigating)
InjectRejects(h) ==
  /\ Running
  /\ handlers[h] = "injecting"
  /\ handlerRejection(h, "inject")
  /\ UNCHANGED <<store, pc, browserOpen, challenges, srcVars, sawCap,
                 capResolved, crawlVars, runVars, logVars>>

\* --------------------------------------------- Phase 3: go to search results
\* await page.goto(search url)
Goto ==
  /\ Running
  /\ pc = "goto"
  /\ pc' = "grace"
  /\ UNCHANGED <<store, proc, browserOpen, challenges, fault, srcVars,
                 gateVars, crawlVars, runVars, logVars>>

GotoFails ==
  /\ Running
  /\ pc = "goto"
  /\ Throw("goto")

\* a grace wait that calls capResolve() whether or not a signal was seen
GraceWait_alwaysResolves ==
  /\ Running
  /\ pc = "grace"
  /\ capResolved' = TRUE
  /\ pc' = "awaitCap"
  /\ UNCHANGED <<store, proc, browserOpen, challenges, fault, srcVars, sawCap,
                 handlers, crawlVars, runVars, logVars>>

\* a grace wait that never resolves capPromise itself
GraceWait_noImplicit ==
  /\ Running
  /\ pc = "grace"
  /\ pc' = "awaitCap"
  /\ UNCHANGED <<store, proc, browserOpen, challenges, fault, srcVars,
                 gateVars, crawlVars, runVars, logVars>>

\* await wait(3000); if (!sawCap) capResolve();
GraceWait ==
  /\ Running
  /\ pc = "grace"
  /\ capResolved' = (capResolved \/ ~sawCap)
  /\ pc' = "awaitCap"
  /\ UNCHANGED <<store, proc, browserOpen, challenges, fault, srcVars, sawCap,
                 handlers, crawlVars, runVars, logVars>>

\* the promise is named but not awaited: the crawl starts at once
AwaitCapPromise_notAwaited ==
  /\ Running
  /\ pc = "awaitCap"
  /\ pc' = "loginWait"
  /\ UNCHANGED <<store, proc, browserOpen, challenges, fault, srcVars,
                 gateVars, crawlVars, runVars, logVars>>

\* await capPromise
AwaitCapPromise ==
  /\ Running
  /\ pc = "awaitCap"
  /\ capResolved
  /\ pc' = "loginWait"
  /\ UNCHANGED <<store, proc, browserOpen, challenges, fault, srcVars,
                 gateVars, crawlVars, runVars, logVars>>

\* a load that reads a column the sheet does not have
loadIds_wrongColumn(rows) == {}

\* existing.forEach(r => existingIds.add(r.jobId))
loadIds(rows) == { rows[i].jobId : i \in 1..Len(rows) }

\* await wait(30000); then load the existing sheet for de-dupe
LoadExisting ==
  /\ Running
  /\ pc = "loginWait"
  /\ existing' = readExisting(store)
  /\ existingIds' = loadIds(readExisting(store))
  /\ newJobs' = <<>>
  /\ pageIdx' = 1
  /\ pc' = "waitContent"
  /\ UNCHANGED <<store, proc, browserOpen, challenges, fault, srcVars,
                 gateVars, dom, loc, ci, desc, runVars, logVars>>

\* a title check that tests PHP before REACT / JAVASCRIPT
titleProfile_phpFirst(title) ==
  LET U == toUpperCase(title)
  IN IF includes(U, KW_PHP) THEN "PHP"
     ELSE IF includes(U, KW_REACT) \/ includes(U, KW_JAVASCRIPT) THEN "JS"
     ELSE IF includes(U, KW_WORDPRESS) THEN "WORDPRESS"
     ELSE "null"

\* a title check on the title as written, not upper-cased
titleProfile_caseSensitive(title) ==
  IF includes(title, KW_REACT) \/ includes(title, KW_JAVASCRIPT) THEN "JS"
  ELSE IF includes(title, KW_PHP) THEN "PHP"
  ELSE IF includes(title, KW_WORDPRESS) THEN "WORDPRESS"
  ELSE "null"

\* ------------------------------------------------------ the per-card policy
\* the title check: REACT / JAVASCRIPT, else PHP, else WORDPRESS, else null
titleProfile(title) ==
  LET U == toUpperCase(title)
  IN IF includes(U, KW_REACT) \/ includes(U, KW_JAVASCRIPT) THEN "JS"
     ELSE IF includes(U, KW_PHP) THEN "PHP"
     ELSE IF includes(U, KW_WORDPRESS) THEN "WORDPRESS"
     ELSE "null"

\* the ignore-list test without upper-casing: ignore_companies.includes(name)
ignoredCompany_caseSensitive(company) == arrayIncludes(ignore_companies, company)

\* ignore_companies.map(c => c.toUpperCase()).includes(job.company.toUpperCase())
ignoredCompany(company) ==
  arrayIncludes(mapToUpperCase(ignore_companies), toUpperCase(company))

\* an exclusion that looks at the licence tiles only
excluded_licenceOnly(hasLicense, company) == hasLicense

\* if (hasLicense || ignored company) { await d.close(); continue; }
excluded(hasLicense, company) == hasLicense \/ ignoredCompany(company)

\* a mapping with no catch-all: a reply without marker is passed on as unknown
classifyDescriptionWithDeepSeek_noCatchAll(content) ==
  LET out == toUpperCase(trim(content))
  IN IF includes(out, MARK_JS) THEN "JS"
     ELSE IF includes(out, MARK_WORDPRESS) THEN "WORDPRESS"
     ELSE IF includes(out, MARK_PHP) THEN "PHP"
     ELSE "UNKNOWN"

\* how classifyDescriptionWithDeepSeek maps the reply text to a profile
classifyDescriptionWithDeepSeek(content) ==
  LET out == toUpperCase(trim(content))
  IN IF includes(out, MARK_JS) THEN "JS"
     ELSE IF includes(out, MARK_WORDPRESS) THEN "WORDPRESS"
     ELSE IF includes(out, MARK_PHP) THEN "PHP"
     ELSE "OTHER"

\* a filter that forgets the ids seen so far
seenOrNoId_idOnly(job, ids) == job.jobId = ""

\* if (!job.jobId || existingIds.has(job.jobId)) continue;
seenOrNoId(job, ids) == job.jobId = "" \/ job.jobId \in ids

\* the job object pushed to newJobs
Row(job, profile) ==
  [jobId |-> job.jobId, title |-> job.title, company |-> job.company,
   profile |-> profile]

\* a merge that puts this run's records first
merged_newFirst(old, new) == new \o old

\* const merged = existing.concat(newJobs)
merged(old, new) == old \o new

InLoop == Running /\ pc = "cards" /\ ci <= Len(dom.cards)
Job == dom.cards[ci]
At == <<pageIdx, ci>>
Entry == [card |-> Job, at |-> At]

\* a push that does not add the id to existingIds
Push_noAdd(profile) ==
  /\ newJobs' = Append(newJobs, Row(Job, profile))
  /\ existingIds' = existingIds
  /\ accepted' = Append(accepted, Entry)
  /\ ci' = ci + 1
  /\ pc' = "cards"

\* job.profile = profile; newJobs.push(job); existingIds.add(job.jobId)
Push(profile) ==
  /\ newJobs' = Append(newJobs, Row(Job, profile))
  /\ existingIds' = existingIds \cup {Job.jobId}
  /\ accepted' = Append(accepted, Entry)
  /\ ci' = ci + 1
  /\ pc' = "cards"

\* ------------------------------------------------ Phase 4: paginate & scrape
\* page.waitForFunction sees a card; page.evaluate returns the cards
WaitForContent(pg) ==
  /\ Running
  /\ pc = "waitContent"
  /\ loc = "listing"
  /\ pageIdx >= sitePages => pg.nxt # "enabled"
  /\ run > 1 => pageIdx <= Len(replay) /\ pg = replay[pageIdx]
  /\ ~extractThrows(pg.cards)
  /\ dom' = pg
  /\ ci' = 1
  /\ extracted' = extracted + 1
  /\ served' = Append(served, pg)
  /\ pc' = "cards"
  /\ UNCHANGED <<store, proc, browserOpen, challenges, fault, srcVars,
                 gateVars, existing, existingIds, newJobs, pageIdx, loc, desc,
                 runVars, accepted, skipLog, detailLog, classifyLog, writes,
                 solverCalls, injections>>

\* page.waitForFunction sees a card; page.evaluate is rejected by the
\* TypeError of a card without href, and nobody catches it (a page that is
\* served again was extracted before, so it holds no such card)
ExtractRejects ==
  /\ Running
  /\ pc = "waitContent"
  /\ loc = "listing"
  /\ run = 1
  /\ \E c \in pool : extractThrows(<<c>>)
  /\ Throw("extract")

\* page.waitForFunction times out after 60000 ms and throws
WaitForContentTimeout ==
  /\ Running
  /\ pc = "waitContent"
  /\ Throw("content-timeout")

\* a card without id, or with an id already seen: continue
SkipCard ==
  /\ InLoop
  /\ seenOrNoId(Job, existingIds)
  /\ ci' = ci + 1
  /\ skipLog' = IF Job.jobId = "" THEN skipLog ELSE skipLog \cup {Entry}
  /\ UNCHANGED <<store, proc, pc, browserOpen, challenges, fault, srcVars,
                 gateVars, existing, existingIds, newJobs, pageIdx, dom, loc,
                 desc, runVars, served, accepted, detailLog, classifyLog,
                 extracted, writes, solverCalls, injections>>

\* the title gives the profile: no detail page, the job is pushed
TitleAccept ==
  /\ InLoop
  /\ ~seenOrNoId(Job, existingIds)
  /\ titleProfile(Job.title) # "null"
  /\ Push(titleProfile(Job.title))
  /\ UNCHANGED <<store, proc, browserOpen, challenges, fault, srcVars,
                 gateVars, existing, pageIdx, dom, loc, desc, runVars,
                 served, skipLog, detailLog, classifyLog, extracted, writes,
                 solverCalls, injections>>

\* const d = await browser.newPage(); ...; await d.goto(job.link)
OpenDetail ==
  /\ InLoop
  /\ ~seenOrNoId(Job, existingIds)
  /\ titleProfile(Job.title) = "null"
  /\ pc' = "detail"
  /\ detailLog' = detailLog \cup {Entry}
  /\ UNCHANGED <<store, proc, browserOpen, challenges, fault, srcVars,
                 gateVars, crawlVars, runVars, served, accepted, skipLog, classifyLog,
                 extracted, writes, solverCalls, injections>>

\* d.goto is rejected (navigation timeout) and nobody catches it
DetailGotoFails ==
  /\ Running
  /\ pc = "detail"
  /\ Throw("detail")

\* scrapeSkillsAndCheckLicenses, then the exclusion: d.close(); continue
DetailExcluded ==
  /\ Running
  /\ pc = "detail"
  /\ excluded(Job.lic, Job.company)
  /\ ci' = ci + 1
  /\ pc' = "cards"
  /\ UNCHANGED <<store, proc, browserOpen, challenges, fault, srcVars,
                 gateVars, existing, existingIds, newJobs, pageIdx, dom, loc,
                 desc, runVars, logVars>>

\* not excluded: d.waitForSelector('#jobDescriptionText') (a timeout is caught
\* and leaves desc empty), then the classifier is called
DetailToClassify(found) ==
  /\ Running
  /\ pc = "detail"
  /\ ~excluded(Job.lic, Job.company)
  /\ desc' = IF found THEN "text" ELSE ""
  /\ pc' = "classify"
  /\ classifyLog' = classifyLog \cup {Entry}
  /\ UNCHANGED <<store, proc, browserOpen, challenges, fault, srcVars,
                 gateVars, existing, existingIds, newJobs, pageIdx, dom, loc,
                 ci, runVars, served, accepted, skipLog, detailLog, extracted, writes,
                 solverCalls, injections>>

\* the chat completion answers; d.close(); the job is pushed
ClassifyResolves(content) ==
  /\ Running
  /\ pc = "classify"
  /\ Push(classifyDescriptionWithDeepSeek(content))
  /\ desc' = ""
  /\ UNCHANGED <<store, proc, browserOpen, challenges, fault, srcVars,
                 gateVars, existing, pageIdx, dom, loc, runVars, served,
                 skipLog, detailLog, classifyLog, extracted, writes,
                 solverCalls, injections>>

\* a rejected classifier call that is caught: profile stays null and the job
\* is pushed as 'OTHER'
ClassifyRejects_caught ==
  /\ Running
  /\ pc = "classify"
  /\ Push("OTHER")
  /\ desc' = ""
  /\ fault' = "classifier"
  /\ UNCHANGED <<store, proc, browserOpen, challenges, srcVars,
                 gateVars, existing, pageIdx, dom, loc, runVars, served,
                 skipLog, detailLog, classifyLog, extracted, writes,
                 solverCalls, injections>>

\* openai.chat.completions.create is rejected and nobody catches it
ClassifyRejects ==
  /\ Running
  /\ pc = "classify"
  /\ Throw("classifier")

AfterLoop == Running /\ pc = "cards" /\ ci > Len(dom.cards)

\* a break on a missing next link only
NextBreak_absentOnly ==
  /\ AfterLoop
  /\ dom.nxt = "absent"
  /\ pc' = "save"
  /\ dom' = NoDom
  /\ ci' = 1
  /\ UNCHANGED <<store, proc, browserOpen, challenges, fault, srcVars,
                 gateVars, existing, existingIds, newJobs, pageIdx, loc, desc,
                 runVars, logVars>>

\* no next link, or aria-disabled = 'true': break (cards goes out of scope)
NextBreak ==
  /\ AfterLoop
  /\ dom.nxt \in {"absent", "disabled"}
  /\ pc' = "save"
  /\ dom' = NoDom
  /\ ci' = 1
  /\ UNCHANGED <<store, proc, browserOpen, challenges, fault, srcVars,
                 gateVars, existing, existingIds, newJobs, pageIdx, loc, desc,
                 runVars, logVars>>

\* a click that first saves what was collected so far
NextClick_savesPage ==
  /\ AfterLoop
  /\ dom.nxt = "enabled"
  /\ store' = Workbook(json_to_sheet(merged(existing, newJobs)))
  /\ writes' = writes + 1
  /\ pc' = "nav"
  /\ dom' = NoDom
  /\ ci' = 1
  /\ UNCHANGED <<proc, browserOpen, challenges, fault, srcVars,
                 gateVars, existing, existingIds, newJobs, pageIdx, loc, desc,
                 runVars, served, accepted, skipLog, detailLog, classifyLog,
                 extracted, solverCalls, injections>>

\* a click on any next link that is present, aria-disabled or not
NextClick_ignoresDisabled ==
  /\ AfterLoop
  /\ dom.nxt # "absent"
  /\ pc' = "nav"
  /\ dom' = NoDom
  /\ ci' = 1
  /\ UNCHANGED <<store, proc, browserOpen, challenges, fault, srcVars,
                 gateVars, existing, existingIds, newJobs, pageIdx, loc, desc,
                 runVars, logVars>>

\* Promise.all([page.waitForNavigation(...), nxt.click()]): the page is left
NextClick ==
  /\ AfterLoop
  /\ dom.nxt = "enabled"
  /\ pc' = "nav"
  /\ dom' = NoDom
  /\ ci' = 1
  /\ UNCHANGED <<store, proc, browserOpen, challenges, fault, srcVars,
                 gateVars, existing, existingIds, newJobs, pageIdx, loc, desc,
                 runVars, logVars>>

\* the navigation ends, on the next results page or on a login page; pageIdx++
Navigated(where) ==
  /\ Running
  /\ pc = "nav"
  /\ loc' = where
  /\ pageIdx' = pageIdx + 1
  /\ pc' = "waitContent"
  /\ UNCHANGED <<store, proc, browserOpen, challenges, fault, srcVars,
                 gateVars, existing, existingIds, newJobs, dom, ci, desc,
                 runVars, logVars>>

\* page.waitForNavigation times out after 30000 ms and throws
NavigationFails ==
  /\ Running
  /\ pc = "nav"
  /\ Throw("navigation")

\* ------------------------------------------------------------ merge & save
\* a save that assigns the loaded rows a profile again, from their titles
MergeAndSave_reclassifies ==
  /\ Running
  /\ pc = "save"
  /\ store' = Workbook(json_to_sheet(merged(
                 [i \in 1..Len(existing) |->
                    Row(existing[i],
                        IF titleProfile(existing[i].title) = "null" THEN "OTHER"
                        ELSE titleProfile(existing[i].title))],
                 newJobs)))
  /\ writes' = writes + 1
  /\ pc' = "close"
  /\ UNCHANGED <<proc, browserOpen, challenges, fault, srcVars, gateVars,
                 crawlVars, runVars, served, accepted, skipLog, detailLog, classifyLog,
                 extracted, solverCalls, injections>>

\* a save that writes this run's records only
MergeAndSave_newOnly ==
  /\ Running
  /\ pc = "save"
  /\ store' = Workbook(json_to_sheet(newJobs))
  /\ writes' = writes + 1
  /\ pc' = "close"
  /\ UNCHANGED <<proc, browserOpen, challenges, fault, srcVars, gateVars,
                 crawlVars, runVars, served, accepted, skipLog, detailLog, classifyLog,
                 extracted, solverCalls, injections>>

MergeAndSave ==
  /\ Running
  /\ pc = "save"
  /\ store' = Workbook(json_to_sheet(merged(existing, newJobs)))
  /\ writes' = writes + 1
  /\ pc' = "close"
  /\ UNCHANGED <<proc, browserOpen, challenges, fault, srcVars, gateVars,
                 crawlVars, runVars, served, accepted, skipLog, detailLog, classifyLog,
                 extracted, solverCalls, injections>>

\* await browser.close()
BrowserClose ==
  /\ Running
  /\ pc = "close"
  /\ browserOpen' = FALSE
  /\ pc' = "done"
  /\ UNCHANGED <<store, proc, challenges, fault, srcVars, gateVars, crawlVars,
                 runVars, logVars>>

HandlerPending ==
  \E h \in 1..Len(handlers) : handlers[h] \in {"solving", "injecting"}

\* scrapeIndeed() returned and nothing is pending: the process ends, code 0
ProcessExit ==
  /\ Running
  /\ pc = "done"
  /\ ~HandlerPending
  /\ proc' = "exit0"
  /\ UNCHANGED <<store, pc, browserOpen, challenges, fault, srcVars, gateVars,
                 crawlVars, runVars, logVars>>

\* ------------------------------------------------------------ specification
\* capPromise is resolved while scrapeIndeed() awaits it: the continuation is a
\* microtask and runs before the event loop delivers any other event
MicrotaskPending == pc = "awaitCap" /\ capResolved

Handler ==
  /\ ~MicrotaskPending
  /\ \/ ConsoleIntercepted
     \/ \E h \in 1..Len(handlers) : SolverResolves(h)
     \/ \E h \in 1..Len(handlers) : SolverRejects(h)
     \/ \E h \in 1..Len(handlers) : InjectResolves(h)
     \/ \E h \in 1..Len(handlers) : InjectRejects(h)

Gate ==
  \/ Goto
  \/ GotoFails
  \/ GraceWait
  \/ AwaitCapPromise
  \/ LoadExisting

Crawl ==
  \/ \E pg \in Pages(pool, wide) : WaitForContent(pg)
  \/ ExtractRejects
  \/ WaitForContentTimeout
  \/ SkipCard
  \/ TitleAccept
  \/ OpenDetail
  \/ DetailGotoFails
  \/ DetailExcluded
  \/ \E found \in BOOLEAN : DetailToClassify(found)
  \/ \E content \in replies : ClassifyResolves(content)
  \/ ClassifyRejects
  \/ NextBreak
  \/ NextClick
  \/ \E where \in {"listing", "auth"} : Navigated(where)
  \/ NavigationFails

Finish ==
  \/ MergeAndSave
  \/ BrowserClose
  \/ ProcessExit

Next == Handler \/ Gate \/ Crawl \/ Finish

Spec == Init /\ [][Next]_vars

\* -------------------------------------------- re-invocation on the same listing
\* the script is started again (cron-style) after a run that ended normally;
\* the source serves the pages it served to the previous run
Rerun ==
  /\ cron
  /\ proc = "exit0"
  /\ run < MaxRuns
  /\ run' = run + 1
  /\ replay' = served
  /\ prior' = readExisting(store)
  /\ proc' = "running"
  /\ pc' = "goto"
  /\ browserOpen' = TRUE
  /\ sawCap' = FALSE
  /\ capResolved' = FALSE
  /\ handlers' = <<>>
  /\ existing' = <<>>
  /\ existingIds' = {}
  /\ newJobs' = <<>>
  /\ pageIdx' = 1
  /\ dom' = NoDom
  /\ loc' = "listing"
  /\ ci' = 1
  /\ desc' = ""
  /\ served' = <<>>
  /\ accepted' = <<>>
  /\ skipLog' = {}
  /\ detailLog' = {}
  /\ classifyLog' = {}
  /\ extracted' = 0
  /\ writes' = 0
  /\ solverCalls' = 0
  /\ injections' = 0
  /\ fault' = "none"
  /\ UNCHANGED <<store, challenges, srcVars>>

InitRerun ==
  /\ cron = TRUE
  /\ \E src \in { [pool |-> PoolRerun, replies |-> {ReplyJs}, pages |-> MaxPages,
                    wide |-> FALSE, signals |-> 0],
                   [pool |-> PoolRerun, replies |-> {ReplyJs}, pages |-> 1,
                    wide |-> TRUE, signals |-> 0] } : InitSource(src)

NextRerun == Gate \/ Crawl \/ Finish \/ Rerun

SpecRerun == InitRerun /\ [][NextRerun]_vars

\* the steps the script itself takes are taken; what the solver and the page's
\* challenge do is up to them
Fairness ==
  /\ WF_vars(Gate \/ Crawl \/ Finish)
  /\ WF_vars(/\ ~MicrotaskPending
             /\ \E h \in 1..Len(handlers) :
                  InjectResolves(h) \/ InjectRejects(h))

FairSpec == Spec /\ Fairness

\* the sources the termination of a run is checked against: a multi-page
\* listing of two cards, a one-page listing with accepted, excluded and
\* unreadable cards, and the listing with challenge signals
TerminationSources ==
  { [pool |-> PoolGate, replies |-> {ReplyJs}, pages |-> MaxPages,
     wide |-> FALSE, signals |-> 0],
    [pool |-> PoolRerun, replies |-> {ReplyJs}, pages |-> 1,
     wide |-> TRUE, signals |-> 0],
    [pool |-> PoolGate, replies |-> {ReplyOther}, pages |-> 1,
     wide |-> FALSE, signals |-> MaxSignals] }

InitTermination ==
  /\ cron = FALSE
  /\ \E src \in TerminationSources : InitSource(src)

FairTermination == InitTermination /\ [][Next]_vars /\ Fairness

\* ------------------------------------------------------------------ claims
Written == writes > 0
StoreRows == readExisting(store)
PriorIds == { prior[i].jobId : i \in 1..Len(prior) }
AcceptedIds == { accepted[i].card.jobId : i \in 1..Len(accepted) }
Before(s, t) == s[1] < t[1] \/ (s[1] = t[1] /\ s[2] < t[2])

\* C1: the store a run writes has no two records with the same id, whatever
\* ids repeat within a page, across pages or with the prior store.
C1_IdentityUniqueness ==
  Written =>
    \A i, j \in 1..Len(StoreRows) :
      StoreRows[i].jobId = StoreRows[j].jobId => i = j

C1_Witness ==
  /\ Written
  /\ Len(accepted) >= 2
  /\ \E e \in skipLog : e.card.jobId \in PriorIds
  /\ \E e \in skipLog : e.card.jobId \in AcceptedIds

\* C2: the store a run writes is the prior store in its order, followed by
\* the records accepted in this run in discovery order (page, then position),
\* each accepted at an id that is neither in the prior store nor accepted
\* earlier in the run.
C2_OrderPreservation ==
  Written =>
    /\ Len(StoreRows) = Len(prior) + Len(accepted)
    /\ \A i \in 1..Len(prior) : StoreRows[i] = prior[i]
    /\ \A i \in 1..Len(accepted) :
         LET r == StoreRows[Len(prior) + i]
             c == accepted[i].card
         IN /\ r.jobId = c.jobId /\ r.title = c.title /\ r.company = c.company
            /\ c.jobId \notin PriorIds
            /\ \A j \in 1..(i - 1) :
                 /\ accepted[j].card.jobId # c.jobId
                 /\ Before(accepted[j].at, accepted[i].at)

C2_Witness ==
  /\ Written
  /\ Len(prior) >= 1
  /\ Len(accepted) >= 2
  /\ accepted[1].at[1] = 1
  /\ accepted[2].at[1] = 2
  /\ skipLog # {}

\* C3: a second run that crawls the same pages against the store the first
\* run wrote writes that same store again (nothing added, removed, reordered).
C3_MergeIdempotence ==
  (run > 1 /\ Written /\ served = replay) => StoreRows = prior

C3_Witness ==
  /\ run = 2
  /\ Written
  /\ served = replay
  /\ Len(served) = 2
  /\ \E i \in 1..Len(prior) : prior[i].profile = "JS"
  /\ \E e \in detailLog : e.card.lic
  /\ skipLog # {}

\* equality and containment of strings ignoring letter case
SameLetter(x, y) == toUpperChar(x) = toUpperChar(y)
EqualsIgnoringCase(s, t) ==
  Len(s) = Len(t) /\ \A k \in 1..Len(s) : SameLetter(s[k], t[k])
ContainsIgnoringCase(s, w) ==
  \E off \in 0..(Len(s) - Len(w)) : \A k \in 1..Len(w) : SameLetter(s[off + k], w[k])
OnBlocklist(company) ==
  \E k \in 1..Len(ignore_companies) :
    EqualsIgnoringCase(ignore_companies[k], company)
WordReact == <<"r","e","a","c","t">>
WordJavascript == <<"j","a","v","a","s","c","r","i","p","t">>
WordPhp == <<"p","h","p">>
WordWordpress == <<"w","o","r","d","p","r","e","s","s">>
Tier1Match(title) ==
  \/ ContainsIgnoringCase(title, WordReact)
  \/ ContainsIgnoringCase(title, WordJavascript)
  \/ ContainsIgnoringCase(title, WordPhp)
  \/ ContainsIgnoringCase(title, WordWordpress)

\* the rows a run has added to the store it wrote
Added ==
  IF Written THEN SubSeq(StoreRows, Len(prior) + 1, Len(StoreRows)) ELSE <<>>

\* C4: a record whose detail page carries a restricted-requirement tile is
\* never in the store a run writes, even when its title matches a tier-1
\* keyword.
C4_ExclusionPrecedence ==
  Written => \A i \in 1..Len(accepted) : ~accepted[i].card.lic

\* C5: no record a run adds to the store has an employer that equals a
\* blocklist entry ignoring case, a tier-1 title match included.
C5_BlocklistInvariant ==
  \A i \in 1..Len(Added) : ~OnBlocklist(Added[i].company)

\* C6: a new record whose title contains react or javascript (any case) is JS,
\* otherwise PHP if it contains php, otherwise WORDPRESS if it contains
\* wordpress, and that is the category it has in the store.
TitleRule(row) ==
  LET js == ContainsIgnoringCase(row.title, WordReact)
              \/ ContainsIgnoringCase(row.title, WordJavascript)
      php == ContainsIgnoringCase(row.title, WordPhp)
      wp == ContainsIgnoringCase(row.title, WordWordpress)
  IN /\ js => row.profile = "JS"
     /\ (~js /\ php) => row.profile = "PHP"
     /\ (~js /\ ~php /\ wp) => row.profile = "WORDPRESS"

C6_TitlePriority ==
  /\ \A i \in 1..Len(newJobs) : TitleRule(newJobs[i])
  /\ \A i \in 1..Len(Added) : TitleRule(Added[i])

C6_Witness ==
  /\ Written
  /\ \E i \in 1..Len(Added) :
       Added[i].title = TitlePhpReact /\ Added[i].profile = "JS"

\* C7: for a record whose title matches a tier-1 keyword no detail page is
\* opened and the classifier is not called.
C7_TitleShortCircuit ==
  \A e \in detailLog \cup classifyLog : ~Tier1Match(e.card.title)

C7_Witness ==
  /\ \E i \in 1..Len(accepted) :
       /\ accepted[i].card.title = TitleReact
       /\ \A e \in detailLog \cup classifyLog : e.at # accepted[i].at
  /\ classifyLog # {}

\* C8: a record that reaches tier 2 with an employer equal to a blocklist
\* entry ignoring case is excluded: not sent to the classifier, not accepted.
C8_Tier2BlocklistIgnoresCase ==
  \A e \in detailLog :
    OnBlocklist(e.card.company) =>
      /\ e \notin classifyLog
      /\ \A i \in 1..Len(accepted) : accepted[i].at # e.at

C8_Witness ==
  /\ pc = "save"
  /\ \E e \in detailLog : e.card.company = CoAmazonLower
  /\ \E e \in detailLog : e.card.company = CoAmazonUpper

\* C9: once a solver call has failed the run is over: the process has ended,
\* and no page is extracted, no record classified or accepted and the store
\* is not written afterwards.
C9_SolverFailureFatal ==
  [][ /\ fault' = "solver" => proc' = "exit1"
      /\ fault = "solver" =>
           UNCHANGED <<extracted, classifyLog, accepted, writes, store>> ]_vars

C9_Witness ==
  /\ fault = "solver"
  /\ proc = "exit1"
  /\ pc = "awaitCap"
  /\ extracted = 0

\* C10: once the session is open, the wait for the gate ends: the run gets
\* past await capPromise or the process ends.
C10_GateLiveness ==
  (pc = "grace") ~> (pc \notin {"goto", "grace", "awaitCap"} \/ proc # "running")


\* C11: when no challenge signal has arrived by the end of the grace period, the
\* script resolves the gate itself and goes on to the crawl, and no solver call
\* or injection has been made by then.
C11_ImplicitSuccess ==
  [][ /\ (pc = "grace" /\ pc' # "grace" /\ ~sawCap) =>
           (capResolved' /\ pc' = "awaitCap" /\ solverCalls' = 0)
      /\ (pc = "awaitCap" /\ ~sawCap /\ pc' # "awaitCap") =>
           (pc' = "loginWait" /\ solverCalls' = 0 /\ injections' = 0) ]_vars

C11_Witness ==
  /\ ~sawCap
  /\ capResolved
  /\ solverCalls = 0
  /\ extracted > 0
  /\ Len(accepted) > 0

\* C12: in one session the solver is called at most once and a solution is
\* injected at most once, however many challenge signals arrive.
C12_FirstSolveOnly == solverCalls <= 1 /\ injections <= 1

\* C13: no results page is extracted, no detail page opened and no classifier
\* call made before capPromise is resolved.
C13_GatePrecedesAccess ==
  (\/ extracted > 0
   \/ detailLog # {}
   \/ classifyLog # {}
   \/ pc \in {"loginWait", "waitContent", "cards", "detail", "classify",
              "nav", "save", "close", "done"}) => capResolved

C13_Witness ==
  /\ sawCap
  /\ injections > 0
  /\ capResolved
  /\ extracted > 0
  /\ detailLog # {}
  /\ classifyLog # {}

\* every record accepted in this run is a row of the file on disk
AcceptedPersisted ==
  /\ Written
  /\ \A i \in 1..Len(accepted) :
       \E j \in 1..Len(StoreRows) : StoreRows[j].jobId = accepted[i].card.jobId

\* C14: a run that ends because no card appeared before the content-wait
\* timeout has merged and persisted the records it had accepted by then.
C14_ContentTimeoutRecoverable ==
  (fault = "content-timeout" /\ proc # "running" /\ accepted # <<>>) =>
    AcceptedPersisted

\* C15: a run whose navigation ended on a login / onboarding page ends without
\* a fault and with every record accepted before the redirect persisted.
C15_AuthRedirectNoLoss ==
  (loc = "auth" /\ proc # "running") => (fault = "none" /\ AcceptedPersisted)

\* past the crawl loop: the break at the pagination check was taken
LoopLeft == pc \in {"save", "close", "done"}

\* which half of the break condition ended the loop: no next link
\* (no-more-pages) or a next link with aria-disabled = 'true' (last-page)
TerminatedBy ==
  IF ~LoopLeft \/ served = <<>> THEN "none"
  ELSE IF served[Len(served)].nxt = "absent" THEN "no-more-pages"
  ELSE "last-page"

\* C16: the first page whose next link is disabled is the last page extracted:
\* with it exactly k pages were extracted, no navigation or content wait
\* follows it, and once its cards are done the loop is left as last-page.
C16_DisabledControlEndsCrawl ==
  \A k \in 1..Len(served) :
    served[k].nxt = "disabled" =>
      /\ \A j \in 1..(k - 1) : served[j].nxt = "enabled"
      /\ Len(served) = k
      /\ extracted = k
      /\ pageIdx = k
      /\ pc \in {"cards", "detail", "classify", "save", "close", "done"}
      /\ LoopLeft => TerminatedBy = "last-page"

C16_Witness ==
  /\ Len(served) = MaxPages
  /\ served[MaxPages].nxt = "disabled"
  /\ extracted = MaxPages
  /\ TerminatedBy = "last-page"
  /\ pc = "done"

\* C17: a page without next link is the last page extracted, no navigation or
\* content wait follows it, the loop is left as no-more-pages, and the file
\* written holds the prior rows and every record accepted up to that page.
C17_AbsentControlEndsCrawl ==
  \A k \in 1..Len(served) :
    served[k].nxt = "absent" =>
      /\ Len(served) = k
      /\ pageIdx = k
      /\ pc \in {"cards", "detail", "classify", "save", "close", "done"}
      /\ LoopLeft => TerminatedBy = "no-more-pages"
      /\ pc \in {"close", "done"} =>
           /\ AcceptedPersisted
           /\ Len(StoreRows) = Len(prior) + Len(accepted)
           /\ \A i \in 1..Len(prior) : StoreRows[i] = prior[i]

C17_Witness ==
  /\ Len(served) = MaxPages
  /\ served[MaxPages].nxt = "absent"
  /\ pc = "done"
  /\ prior # <<>>
  /\ \E i \in 1..Len(accepted) : accepted[i].at[1] = MaxPages
  /\ AcceptedPersisted

\* C18: when the classifier call is rejected the process ends there: the run
\* stands at the record whose call failed, nothing was logged for a later
\* record or page, and the file on disk is the one the run started with.
C18_ClassifierFailureFatal ==
  fault = "classifier" =>
    /\ proc = "exit1"
    /\ pc = "classify"
    /\ Len(served) = pageIdx
    /\ \A e \in detailLog \cup classifyLog : e.at = At \/ Before(e.at, At)
    /\ \A i \in 1..Len(accepted) : Before(accepted[i].at, At)
    /\ writes = 0
    /\ StoreRows = prior

C18_Witness ==
  /\ fault = "classifier"
  /\ proc = "exit1"
  /\ accepted # <<>>
  /\ prior # <<>>
  /\ ci < Len(dom.cards)

\* C19: whenever the process has ended after the browser was launched, the
\* browser session has been closed.
C19_SessionReleased == proc # "running" => ~browserOpen

\* C20: a detail fetch that times out never ends the run.
C20_DetailTimeoutNonFatal == ~(proc = "exit1" /\ fault = "detail")

\* C21: a card whose id cannot be extracted never ends the run, is never
\* opened, classified or accepted, and never becomes a row of the file.
C21_MalformedAbsorbed ==
  /\ fault # "extract"
  /\ \A e \in detailLog \cup classifyLog : e.card.jobId # ""
  /\ \A i \in 1..Len(accepted) : accepted[i].card.jobId # ""
  /\ \A i \in 1..Len(Added) : Added[i].jobId # ""

\* the id of entry e was in the prior store, or accepted earlier in the run
SeenBefore(e) ==
  \/ e.card.jobId \in PriorIds
  \/ \E j \in 1..Len(accepted) :
       /\ accepted[j].card.jobId = e.card.jobId
       /\ Before(accepted[j].at, e.at)

\* C22: no detail page is opened, no classifier call made and no record accepted
\* for a card whose id was in the prior store or accepted earlier in the run,
\* and the file holds no second row for such an id.
C22_SeenNotReprocessed ==
  /\ \A e \in detailLog \cup classifyLog : ~SeenBefore(e)
  /\ \A i \in 1..Len(accepted) : ~SeenBefore(accepted[i])
  /\ Written =>
       \A i \in 1..Len(Added) :
         /\ Added[i].jobId \notin PriorIds
         /\ \A j \in 1..Len(Added) : Added[j].jobId = Added[i].jobId => j = i

C22_Witness ==
  /\ Written
  /\ \E e \in skipLog : e.card.jobId \in PriorIds
  /\ \E e \in skipLog :
       /\ titleProfile(e.card.title) = "null"
       /\ \E j \in 1..Len(accepted) :
            /\ accepted[j].card.jobId = e.card.jobId
            /\ Before(accepted[j].at, e.at)

\* C23: a process that ends after the crawl loop was left, the file written
\* and the browser closed, with no solver or classifier call rejected, ends
\* with code 0; one that ends on a rejected solver or classifier call ends
\* with code 1.
C23_ExitStatus ==
  /\ (proc # "running" /\ pc = "done" /\ fault \notin {"solver", "classifier"})
       => proc = "exit0"
  /\ (proc # "running" /\ fault \in {"solver", "classifier"}) => proc = "exit1"

\* C24: no solver call is in flight while the crawl loop waits for content or
\* for a navigation, loads a detail page or calls the classifier.
C24_NoConcurrentSuspension ==
  ~(/\ \E h \in 1..Len(handlers) : handlers[h] = "solving"
    /\ pc \in {"waitContent", "nav", "detail", "classify"})

\* C25: capPromise is resolved once and stays resolved; the grace wait resolves
\* it only when no signal was seen by then; after a signal it is resolved only
\* by a handler that has injected the solution, and the script passes the gate
\* only then; a later handler's capResolve() changes nothing.
C25_FirstResolutionWins ==
  [][ /\ capResolved => capResolved'
      /\ (~capResolved /\ capResolved') =>
           IF sawCap THEN injections' = injections + 1 /\ pc' = pc
           ELSE pc = "grace" /\ pc' = "awaitCap"
      /\ (pc = "grace" /\ pc' = "awaitCap" /\ sawCap) =>
           capResolved' = capResolved
      /\ (pc = "awaitCap" /\ pc' = "loginWait") =>
           (capResolved /\ (sawCap => injections > 0)) ]_vars

C25_Witness ==
  /\ capResolved
  /\ injections >= 2
  /\ extracted > 0

\* C26: at every moment of a run the file holds the rows it held when the run
\* started, at the same positions and with the same fields, profile included.
C26_PriorRecordsPreserved ==
  /\ Len(StoreRows) >= Len(prior)
  /\ \A i \in 1..Len(prior) : StoreRows[i] = prior[i]

C26_Witness ==
  /\ Written
  /\ prior # <<>>
  /\ prior[1].profile = ""
  /\ Len(StoreRows) > Len(prior)
  /\ store.cells[1] # <<"a", TitleGo, CoAcme>>

\* C27: a run writes the file at most once, and only past the crawl loop: while
\* the gate is passed, pages are crawled or records classified nothing has
\* been written and the file is the one the run started with.
C27_SinglePersistencePoint ==
  /\ writes <= 1
  /\ Written => pc \in {"close", "done"}
  /\ pc \notin {"close", "done"} => (writes = 0 /\ StoreRows = prior)

C27_Witness ==
  /\ Written
  /\ pc = "done"
  /\ Len(served) = MaxPages
  /\ classifyLog # {}
  /\ Len(accepted) >= 2

Categories == {"JS", "PHP", "WORDPRESS", "OTHER"}
ProfileColon == <<"p","r","o","f","i","l","e",":"," ">>
HasMarker(reply) ==
  \/ ContainsIgnoringCase(reply, ProfileColon \o <<"j","s">>)
  \/ ContainsIgnoringCase(reply, ProfileColon \o WordWordpress)
  \/ ContainsIgnoringCase(reply, ProfileColon \o WordPhp)

\* C28: every record a run collects, and every row it adds to the file, has a
\* profile in {JS, PHP, WORDPRESS, OTHER}; whatever the classifier replies to
\* a call is mapped into that set, a reply without any of the three markers
\* to OTHER.
C28_ClosedCategorySet ==
  /\ \A i \in 1..Len(newJobs) : newJobs[i].profile \in Categories
  /\ \A i \in 1..Len(Added) : Added[i].profile \in Categories
  /\ pc = "classify" =>
       \A r \in replies :
         /\ classifyDescriptionWithDeepSeek(r) \in Categories
         /\ ~HasMarker(r) => classifyDescriptionWithDeepSeek(r) = "OTHER"

C28_Witness ==
  /\ Written
  /\ ReplyUnsure \in replies
  /\ classifyLog # {}
  /\ \E i \in 1..Len(Added) :
       Added[i].profile = "OTHER" /\ ~Tier1Match(Added[i].title)
  /\ \E i \in 1..Len(Added) : Added[i].profile # "OTHER"

\* C29: within one run a detail page is opened at most once per id.
C29_EnrichOncePerId ==
  \A e1, e2 \in detailLog : e1.card.jobId = e2.card.jobId => e1.at = e2.at

\* the cards of the pages extracted in this run, in discovery order, each with
\* its position (page, index)
RECURSIVE Discovered(_)
Discovered(n) ==
  IF n = 0 THEN <<>>
  ELSE Discovered(n - 1) \o
       [i \in 1..Len(served[n].cards) |->
          [card |-> served[n].cards[i], at |-> <<n, i>>]]

\* the profile the run gave the card at a position, if it gave one
ProfileAt(e) ==
  IF \E j \in 1..Len(accepted) : accepted[j].at = e.at
  THEN newJobs[CHOOSE j \in 1..Len(accepted) : accepted[j].at = e.at].profile
  ELSE "OTHER"

\* classify-then-collect: every discovered record is classified, the ones the
\* detail-page filters exclude are dropped
Excluded(card) ==
  ~Tier1Match(card.title) /\ (card.lic \/ OnBlocklist(card.company))
Classified ==
  LET all == Discovered(Len(served))
      kept == SelectSeq(all, LAMBDA e : ~Excluded(e.card))
  IN [i \in 1..Len(kept) |->
        [jobId |-> kept[i].card.jobId, title |-> kept[i].card.title,
         company |-> kept[i].card.company, profile |-> ProfileAt(kept[i])]]

\* merge by id: the old rows, then each new row whose id is not empty, not an
\* old row's and not an earlier new row's
RECURSIVE MergeById(_, _)
MergeById(old, new) ==
  IF new = <<>> THEN old
  ELSE LET r == Head(new)
           ids == { old[i].jobId : i \in 1..Len(old) }
       IN MergeById(IF r.jobId = "" \/ r.jobId \in ids THEN old
                    ELSE Append(old, r),
                    Tail(new))

\* C30: the file a run writes is the merge by id of the prior rows with the
\* records obtained by classifying every discovered card in discovery order.
C30_FilterThenClassifyEquivalence ==
  Written => StoreRows = MergeById(prior, Classified)

C30_Witness ==
  /\ Written
  /\ prior # <<>>
  /\ Len(accepted) >= 2
  /\ skipLog # {}
  /\ classifyLog # {}
  /\ Len(Classified) > Len(accepted)

\* the run has written the merged rows and closed the browser, after extracting
\* the pages 1..pageIdx once each, every one but the last left by its next link
RunCompleted ==
  /\ Written
  /\ ~browserOpen
  /\ StoreRows = merged(prior, newJobs)
  /\ extracted = pageIdx
  /\ Len(served) = pageIdx
  /\ \A k \in 1..Len(served) : (served[k].nxt = "enabled") <=> (k < Len(served))

====
